---- MODULE Spec2Model ----
(***************************************************************************)
(* Model of the S3FD detector post-processing of                           *)
(* plugins/extract/detect/s3fd.py, stepped statement by statement: the     *)
(* greedy non-maximum suppression S3fd._nms (specification Spec) and the   *)
(* batch path S3fd.finalize_predictions / S3fd._post_process               *)
(* (specification DetectSpec).  Two further machines of the repository     *)
(* are modelled beside it: the prefetching thread BackgroundGenerator of   *)
(* lib/utils.py (specifications BgSpec and BgFairSpec) and the frame       *)
(* navigation FrameNavigation of tools/lib_manual/media.py (NavSpec).      *)
(*                                                                         *)
(* Numbers.  Box corners are integers.  Scores and the confidence are in   *)
(* hundredths (0.9 is 90), the overlap threshold is in tenths (0.3 is 3).  *)
(* An overlap is kept as an exact fraction [num, den].                     *)
(*                                                                         *)
(* Arrays.  np.split(boxes, 5, axis=1) gives five (N,1) column arrays.  A  *)
(* column is modelled as the sequence of its N rows, each row being its    *)
(* single value; indices held in arrays (order, best, rest) are 0-based as *)
(* in the code, trailing axes of length one are dropped.                   *)
(***************************************************************************)
EXTENDS Integers, Sequences, FiniteSets, TLC

VARIABLES boxes, threshold, method, confidence,
          pc, error, areas, order, best, rest, max_area, overlap,
          retained_box_indices, retval,
          iterations, run, first_retval

\* finalize_predictions and _post_process
VARIABLES batch_of_bounding_boxes, raw, ret, img, dpc, derror,
          level, stride, poss, cell, score, loc, priors,
          pp_retval, return_numpy, calls, first_ret

\* BackgroundGenerator: the producer thread (run) and the consumer (iterator)
VARIABLES generator, prefetch, queue, taken, item, ppc,
          next_item, cpc, yielded

\* FrameNavigation: the tk variables, the loaded index and the last handler
VARIABLES frame_count, position, is_playing, current_idx, needs_update,
          updated, last_op, before

nmsVars == <<boxes, threshold, method, confidence,
             pc, error, areas, order, best, rest, max_area, overlap,
             retained_box_indices, retval,
             iterations, run, first_retval>>

detVars == <<batch_of_bounding_boxes, raw, ret, img, dpc, derror,
             level, stride, poss, cell, score, loc, priors,
             pp_retval, return_numpy, calls, first_ret>>

bgVars == <<generator, prefetch, queue, taken, item, ppc,
            next_item, cpc, yielded>>

navVars == <<frame_count, position, is_playing, current_idx, needs_update,
             updated, last_op, before>>

vars == <<nmsVars, detVars, bgVars, navVars>>

(* ------------------------------ bounds -------------------------------- *)

\* longest candidate list given to _nms
MaxBoxes == 3

(* ------------------------------ inputs -------------------------------- *)

\* candidate rows [x1, y1, x2, y2, score]; the rows of the spec's scenarios
BoxPool ==
    { <<0, 0, 10, 10, 90>>, <<1, 1, 11, 11, 80>>,
      <<0, 0, 5, 5, 90>>, <<20, 20, 25, 25, 80>>,
      <<0, 0, 5, 5, 40>> }

CandidateLists == UNION { [1..n -> BoxPool] : n \in 0..MaxBoxes }

Thresholds == {3, 5}
Methods == {"iou", "iom"}
Confidences == {50, 85}

NoValue == <<>>

(* ------------------------------ helpers ------------------------------- *)

Maximum(a, b) == IF a >= b THEN a ELSE b
Minimum(a, b) == IF a <= b THEN a ELSE b

\* column k of an (N,5) array, as np.split(boxes, 5, axis=1) returns it
Column(arr, k) == [i \in 1..Len(arr) |-> arr[i][k]]
x_1(arr) == Column(arr, 1)
y_1(arr) == Column(arr, 2)
x_2(arr) == Column(arr, 3)
y_2(arr) == Column(arr, 4)
scores(arr) == Column(arr, 5)

\* ndarray.argsort() of one row: the 0-based positions of the row's values in
\* ascending order (equal values keep their order)
ArgsortRow(row) ==
    CHOOSE p \in [1..Len(row) -> 0..(Len(row) - 1)] :
        /\ \A i, j \in 1..Len(row) : i # j => p[i] # p[j]
        /\ \A i, j \in 1..Len(row) :
              i < j => \/ row[p[i] + 1] < row[p[j] + 1]
                       \/ row[p[i] + 1] = row[p[j] + 1] /\ p[i] < p[j]

\* scores.argsort() with scores of shape (N,1): argsort works along the last
\* axis, which has length one, so every row <<score>> is sorted on its own
Argsort(col) == [i \in 1..Len(col) |-> ArgsortRow(<<col[i]>>)[1]]

\* arr[::-1]
Reversed(arr) == [i \in 1..Len(arr) |-> arr[Len(arr) + 1 - i]]

\* areas = (x_2 - x_1 + 1) * (y_2 - y_1 + 1)
Areas(arr) ==
    [i \in 1..Len(arr) |->
        (x_2(arr)[i] - x_1(arr)[i] + 1) * (y_2(arr)[i] - y_1(arr)[i] + 1)]

\* max_area of box b against box r (0-based rows of arr), lines 301-303
MaxArea(arr, b, r) ==
    LET xx_1 == Maximum(x_1(arr)[b + 1], x_1(arr)[r + 1])
        yy_1 == Maximum(y_1(arr)[b + 1], y_1(arr)[r + 1])
        xx_2 == Minimum(x_2(arr)[b + 1], x_2(arr)[r + 1])
        yy_2 == Minimum(y_2(arr)[b + 1], y_2(arr)[r + 1])
    IN  Maximum(0, xx_2 - xx_1 + 1) * Maximum(0, yy_2 - yy_1 + 1)

\* overlap of box b against box r, lines 304-307
Overlap(arr, m, b, r) ==
    LET ar == Areas(arr)
        inter == MaxArea(arr, b, r)
    IN  IF m = "iom"
        THEN [num |-> inter, den |-> Minimum(ar[b + 1], ar[r + 1])]
        ELSE [num |-> inter, den |-> ar[b + 1] + ar[r + 1] - inter]

\* overlap <= threshold for a threshold in tenths (den > 0 for x1<=x2, y1<=y2)
OverlapLeq(ov, thr) == ov.num * 10 <= thr * ov.den

\* the loop test of line 298
WhileConditionAlways(ord) == Len(ord) >= 0
WhileCondition(ord) == Len(ord) > 0

\* boxes[retained_box_indices]
Take(arr, idx) == [i \in 1..Len(idx) |-> arr[idx[i] + 1]]

\* finalize_predictions is not running
DetectIdle ==
    /\ batch_of_bounding_boxes = NoValue
    /\ raw = NoValue
    /\ ret = NoValue
    /\ img = 0
    /\ dpc = "idle"
    /\ derror = "none"
    /\ level = 0
    /\ stride = 0
    /\ poss = NoValue
    /\ cell = 0
    /\ score = 0
    /\ loc = NoValue
    /\ priors = NoValue
    /\ pp_retval = NoValue
    /\ return_numpy = NoValue
    /\ calls = 0
    /\ first_ret = NoValue

\* _nms is not running
NmsIdle ==
    /\ boxes = NoValue
    /\ threshold = 3
    /\ method = "iou"
    /\ confidence = 50
    /\ pc = "idle"
    /\ error = "none"
    /\ areas = NoValue
    /\ order = NoValue
    /\ best = -1
    /\ rest = NoValue
    /\ max_area = NoValue
    /\ overlap = NoValue
    /\ retained_box_indices = NoValue
    /\ retval = NoValue
    /\ iterations = 0
    /\ run = 0
    /\ first_retval = NoValue

\* no BackgroundGenerator has been constructed
BgIdle ==
    /\ generator = NoValue
    /\ prefetch = 0
    /\ queue = NoValue
    /\ taken = 0
    /\ item = "none"
    /\ ppc = "idle"
    /\ next_item = "none"
    /\ cpc = "idle"
    /\ yielded = NoValue

\* no FrameNavigation has been constructed
NavIdle ==
    /\ frame_count = 0
    /\ position = 0
    /\ is_playing = FALSE
    /\ current_idx = 0
    /\ needs_update = FALSE
    /\ updated = FALSE
    /\ last_op = "idle"
    /\ before = NoValue

(* ------------------------------- Init --------------------------------- *)

Init ==
    /\ boxes \in CandidateLists
    /\ threshold \in Thresholds
    /\ method \in Methods
    /\ confidence \in Confidences
    /\ pc = "call"
    /\ error = "none"
    /\ areas = NoValue
    /\ order = NoValue
    /\ best = -1
    /\ rest = NoValue
    /\ max_area = NoValue
    /\ overlap = NoValue
    /\ retained_box_indices = NoValue
    /\ retval = NoValue
    /\ iterations = 0
    /\ run = 1
    /\ first_retval = NoValue
    /\ DetectIdle
    /\ BgIdle
    /\ NavIdle

(* ------------------------------ actions ------------------------------- *)

\* lines 293-296: the retained list, the columns, the areas and the order
NmsEnter ==
    /\ pc = "call"
    /\ retained_box_indices' = <<>>
    /\ areas' = Areas(boxes)
    /\ order' = Reversed(Argsort(scores(boxes)))
    /\ pc' = "while"
    /\ UNCHANGED <<detVars, bgVars, navVars>>
    /\ UNCHANGED <<boxes, threshold, method, confidence, error, best, rest,
                   max_area, overlap, retval, iterations, run, first_retval>>

\* lines 298-300: the loop is entered; best = order[0], rest = order[1:]
\* (order[0] of an empty array is an IndexError)
NmsSelect ==
    /\ pc = "while"
    /\ WhileCondition(order)
    /\ iterations' = iterations + 1
    /\ IF Len(order) = 0
       THEN /\ pc' = "error"
            /\ error' = "IndexError"
            /\ UNCHANGED <<best, rest>>
       ELSE /\ best' = order[1]
            /\ rest' = Tail(order)
            /\ pc' = "overlap"
            /\ UNCHANGED error
    /\ UNCHANGED <<detVars, bgVars, navVars>>
    /\ UNCHANGED <<boxes, threshold, method, confidence, areas, order,
                   max_area, overlap, retained_box_indices, retval, run,
                   first_retval>>

\* lines 301-307: intersection and overlap of best against every box of rest
NmsOverlap ==
    /\ pc = "overlap"
    /\ max_area' = [k \in 1..Len(rest) |-> MaxArea(boxes, best, rest[k])]
    /\ overlap' = [k \in 1..Len(rest) |-> Overlap(boxes, method, best, rest[k])]
    /\ pc' = "confidence"
    /\ UNCHANGED <<detVars, bgVars, navVars>>
    /\ UNCHANGED <<boxes, threshold, method, confidence, error, areas, order,
                   best, rest, retained_box_indices, retval, iterations, run,
                   first_retval>>

\* line 308: `if best >= self.confidence:` inside a @staticmethod whose
\* parameters are (boxes, threshold, method): the name self is not bound, the
\* evaluation of the condition raises NameError and _nms is left
NmsConfidence ==
    /\ pc = "confidence"
    /\ pc' = "error"
    /\ error' = "NameError"
    /\ UNCHANGED <<detVars, bgVars, navVars>>
    /\ UNCHANGED <<boxes, threshold, method, confidence, areas, order, best,
                   rest, max_area, overlap, retained_box_indices, retval,
                   iterations, run, first_retval>>

\* lines 298, 313: the loop test fails; return boxes[retained_box_indices]
NmsReturn ==
    /\ pc = "while"
    /\ ~WhileCondition(order)
    /\ retval' = Take(boxes, retained_box_indices)
    /\ pc' = "done"
    /\ UNCHANGED <<detVars, bgVars, navVars>>
    /\ UNCHANGED <<boxes, threshold, method, confidence, error, areas, order,
                   best, rest, max_area, overlap, retained_box_indices,
                   iterations, run, first_retval>>

\* _nms called once more, on the array the first call returned, with the same
\* threshold and method
NmsAgain ==
    /\ pc = "done"
    /\ run = 1
    /\ run' = 2
    /\ first_retval' = retval
    /\ boxes' = retval
    /\ pc' = "call"
    /\ iterations' = 0
    /\ UNCHANGED <<detVars, bgVars, navVars>>
    /\ UNCHANGED <<threshold, method, confidence, error, areas, order, best,
                   rest, max_area, overlap, retained_box_indices, retval>>

Next ==
    \/ NmsEnter
    \/ NmsSelect
    \/ NmsOverlap
    \/ NmsConfidence
    \/ NmsReturn
    \/ NmsAgain

Spec == Init /\ [][Next]_vars

(* ------------------------- common vocabulary -------------------------- *)

Finished == pc \in {"done", "error"}
Returned == pc = "done"
Raised == pc = "error"

(* ------------- finalize_predictions and _post_process ----------------- *)
(* The argument of finalize_predictions is a sequence with one entry per   *)
(* image; an entry is the list handed to _post_process: classification     *)
(* tensor, regression tensor, classification tensor, ... one pair per      *)
(* level.  A tensor is the sequence, along its first axis, of grids; a     *)
(* grid maps a cell <<row, col>> to its channel values: <<background,      *)
(* face>> for a classification tensor, <<dx, dy, dw, dh>> for a regression *)
(* tensor.  Logits and probabilities are in thousandths.                   *)

\* levels of the network (the strides 4,8,16,32,64,128 of line 252)
NumLevels == 6

\* rows and columns of a feature map
GridSize == 2

\* most images in a batch of several images
MaxImages == 2

Cells == (0..(GridSize - 1)) \X (0..(GridSize - 1))

QuietLogits == <<3000, 0>>
HotLogits == <<0, 2000>>

QuietGrid == [c \in Cells |-> QuietLogits]
HotGrid(at) == [c \in Cells |-> IF c = at THEN HotLogits ELSE QuietLogits]

\* classification tensors: no face; one face cell on a first axis of length
\* one; a first axis of length two with the face cell in its second entry
ClsQuiet == <<QuietGrid>>
ClsHot(at) == <<HotGrid(at)>>
ClsQuietTwo == <<QuietGrid, QuietGrid>>
ClsHotSecond == <<QuietGrid, HotGrid(<<0, 1>>)>>
ClsPool ==
    {ClsQuiet, ClsQuietTwo, ClsHotSecond} \cup {ClsHot(at) : at \in Cells}

ZeroLoc == <<0, 0, 0, 0>>
SomeLoc == <<1, -1, 2, -2>>
RegZero == <<[c \in Cells |-> ZeroLoc]>>
RegSome == <<[c \in Cells |-> SomeLoc]>>
RegZeroTwo == <<[c \in Cells |-> ZeroLoc], [c \in Cells |-> ZeroLoc]>>
RegPool == {RegZero, RegSome, RegZeroTwo}

\* j levels without a face
QuietLevels(j) ==
    [k \in 1..(2 * j) |-> IF k % 2 = 1 THEN ClsQuiet ELSE RegZero]

\* the lists given for one image: up to NumLevels levels of which the last
\* is any pair of the pools, with or without an unpaired tensor at the end;
\* the empty list; a single tensor
Images ==
    {<<>>} \cup {<<c>> : c \in ClsPool}
    \cup { QuietLevels(j) \o <<c, r>> \o tail :
             j \in 0..(NumLevels - 1), c \in ClsPool, r \in RegPool,
             tail \in {<<>>, <<ClsHot(<<0, 0>>)>>} }

\* images of the batches of several images
FewImages ==
    { <<>>,
      <<ClsQuiet, RegZero>>,
      <<ClsHot(<<0, 0>>), RegZero>>,
      <<ClsQuiet, RegZero, ClsHot(<<0, 0>>)>> }

Batches ==
    {<<>>} \cup {<<im>> : im \in Images}
    \cup UNION { [1..n -> FewImages] : n \in 2..MaxImages }

\* exp(x1 - logsumexp(<<x0, x1>>)) = 1 / (1 + exp(x0 - x1)) in thousandths,
\* for the differences d = x1 - x0 that logits and probabilities of the
\* pools give
SigmoidMilli(d) ==
    CASE d = -3000 -> 47
      [] d = 2000 -> 881
      [] d = 0 -> 500
      [] d = -906 -> 288
      [] d = 762 -> 682

\* softmax over the two classes of one cell (line 268 with axis=1)
SoftmaxCell(v) == <<1000 - SigmoidMilli(v[2] - v[1]), SigmoidMilli(v[2] - v[1])>>

\* softmax(inp, axis=1) of a classification tensor
softmax(inp) == [n \in 1..Len(inp) |-> [c \in Cells |-> SoftmaxCell(inp[n][c])]]

\* the prefilter of line 253, in thousandths
PrefilterThreshold == 50

\* position k (0-based) of np.where's result on an array of shape
\* (n, GridSize, GridSize): row-major order
WhereIndex(k) ==
    << k \div (GridSize * GridSize),
       (k % (GridSize * GridSize)) \div GridSize,
       k % GridSize >>

PassesPrefilterBackground(ocls, t) == ocls[t[1] + 1][<<t[2], t[3]>>][1] > PrefilterThreshold
PassesPrefilter(ocls, t) == ocls[t[1] + 1][<<t[2], t[3]>>][2] > PrefilterThreshold

\* zip(*np.where(ocls[:, 1, :, :] > 0.05)): the triples (n, hindex, windex)
Poss(ocls) ==
    SelectSeq([k \in 1..(Len(ocls) * GridSize * GridSize) |-> WhereIndex(k - 1)],
              LAMBDA t : PassesPrefilter(ocls, t))

\* bboxlist, the entry of the batch that _post_process works on
bboxlist == batch_of_bounding_boxes[img]

\* len(bboxlist) // 2
NumPairs(bbl) == Len(bbl) \div 2

\* stride = 2 ** (i + 2)
StrideHalved(i) == 2 ^ (i + 1)
Stride(i) == 2 ^ (i + 2)

\* lines 255 and 258: [[axc, ayc, stride * 4, stride * 4]]
Priors(s, hindex, windex) ==
    <<s \div 2 + windex * s, s \div 2 + hindex * s, s * 4, s * 4>>

\* np.array([]) and np.zeros((1, 5))
EmptyArray == [shape |-> <<0>>, rows |-> <<>>]
ZerosOneFive == [shape |-> <<1, 5>>, rows |-> << <<0, 0, 0, 0, 0>> >>]

DetectInit ==
    /\ boxes = NoValue
    /\ threshold = 3
    /\ method = "iou"
    /\ confidence \in Confidences
    /\ pc = "idle"
    /\ error = "none"
    /\ areas = NoValue
    /\ order = NoValue
    /\ best = -1
    /\ rest = NoValue
    /\ max_area = NoValue
    /\ overlap = NoValue
    /\ retained_box_indices = NoValue
    /\ retval = NoValue
    /\ iterations = 0
    /\ run = 0
    /\ first_retval = NoValue
    /\ batch_of_bounding_boxes \in Batches
    /\ raw = batch_of_bounding_boxes
    /\ ret = NoValue
    /\ img = 0
    /\ dpc = "fp_call"
    /\ derror = "none"
    /\ level = 0
    /\ stride = 0
    /\ poss = NoValue
    /\ cell = 0
    /\ score = 0
    /\ loc = NoValue
    /\ priors = NoValue
    /\ pp_retval = NoValue
    /\ return_numpy = NoValue
    /\ calls = 1
    /\ first_ret = NoValue
    /\ BgIdle
    /\ NavIdle

\* lines 235-236: ret = list()
FpEnter ==
    /\ dpc = "fp_call"
    /\ ret' = <<>>
    /\ img' = 1
    /\ dpc' = "fp_for"
    /\ UNCHANGED <<batch_of_bounding_boxes, raw, derror, level, stride, poss,
                   cell, score, loc, priors, pp_retval, return_numpy, calls,
                   first_ret>>
    /\ UNCHANGED <<nmsVars, bgVars, navVars>>

\* lines 237-238, 247: the next entry of the batch is given to _post_process
FpNextImage ==
    /\ dpc = "fp_for"
    /\ img <= Len(batch_of_bounding_boxes)
    /\ pp_retval' = <<>>
    /\ dpc' = "pp_softmax"
    /\ UNCHANGED <<batch_of_bounding_boxes, raw, ret, img, derror, level,
                   stride, poss, cell, score, loc, priors, return_numpy,
                   calls, first_ret>>
    /\ UNCHANGED <<nmsVars, bgVars, navVars>>

\* lines 248-249: bboxlist[i * 2] = softmax(bboxlist[i * 2]) for every pair;
\* bboxlist is the caller's list, the assignment replaces its entries
PpSoftmax ==
    /\ dpc = "pp_softmax"
    /\ batch_of_bounding_boxes' =
          [batch_of_bounding_boxes EXCEPT ![img] =
              [k \in 1..Len(bboxlist) |->
                  IF k % 2 = 1 /\ (k - 1) \div 2 < NumPairs(bboxlist)
                  THEN softmax(bboxlist[k])
                  ELSE bboxlist[k]]]
    /\ level' = 0
    /\ dpc' = "pp_level"
    /\ UNCHANGED <<raw, ret, img, derror, stride, poss, cell, score, loc,
                   priors, pp_retval, return_numpy, calls, first_ret>>
    /\ UNCHANGED <<nmsVars, bgVars, navVars>>

\* lines 250-253: ocls, oreg = bboxlist[i * 2], bboxlist[i * 2 + 1] of the
\* next level i, its stride and the cells that pass the prefilter
PpLevel ==
    /\ dpc = "pp_level"
    /\ level < NumPairs(bboxlist)
    /\ stride' = Stride(level)
    /\ poss' = Poss(bboxlist[2 * level + 1])
    /\ cell' = 1
    /\ dpc' = "pp_cells"
    /\ UNCHANGED <<batch_of_bounding_boxes, raw, ret, img, derror, level,
                   score, loc, priors, pp_retval, return_numpy, calls,
                   first_ret>>
    /\ UNCHANGED <<nmsVars, bgVars, navVars>>

\* lines 254-258: the next triple (_, hindex, windex) of poss; score and loc
\* are read at index 0 of the first axis, the prior is built from the cell
PpCell ==
    /\ dpc = "pp_cells"
    /\ cell <= Len(poss)
    /\ LET hindex == poss[cell][2]
           windex == poss[cell][3]
           ocls == bboxlist[2 * level + 1]
           oreg == bboxlist[2 * level + 2]
       IN  /\ score' = ocls[1][<<hindex, windex>>][2]
           /\ loc' = oreg[1][<<hindex, windex>>]
           /\ priors' = Priors(stride, hindex, windex)
    /\ dpc' = "pp_decode"
    /\ UNCHANGED <<batch_of_bounding_boxes, raw, ret, img, derror, level,
                   stride, poss, cell, pp_retval, return_numpy, calls,
                   first_ret>>
    /\ UNCHANGED <<nmsVars, bgVars, navVars>>

\* line 259: box = self.decode(loc, priors, variances): no name variances is
\* bound in _post_process or in the module (line 283 binds it inside decode),
\* so evaluating the arguments raises NameError; it propagates out of
\* finalize_predictions
PpDecodeCall ==
    /\ dpc = "pp_decode"
    /\ dpc' = "fp_error"
    /\ derror' = "NameError"
    /\ UNCHANGED <<batch_of_bounding_boxes, raw, ret, img, level, stride,
                   poss, cell, score, loc, priors, pp_retval, return_numpy,
                   calls, first_ret>>
    /\ UNCHANGED <<nmsVars, bgVars, navVars>>

\* line 254 with poss exhausted: on to the next level
PpLevelDone ==
    /\ dpc = "pp_cells"
    /\ cell > Len(poss)
    /\ level' = level + 1
    /\ dpc' = "pp_level"
    /\ UNCHANGED <<batch_of_bounding_boxes, raw, ret, img, derror, stride,
                   poss, cell, score, loc, priors, pp_retval, return_numpy,
                   calls, first_ret>>
    /\ UNCHANGED <<nmsVars, bgVars, navVars>>

\* lines 262-263:
\* return np.array(retval) if len(retval) == 0 else np.zeros((1, 5))
PpReturn ==
    /\ dpc = "pp_level"
    /\ level >= NumPairs(bboxlist)
    /\ return_numpy' = IF Len(pp_retval) = 0 THEN EmptyArray ELSE ZerosOneFive
    /\ dpc' = "fp_guard"
    /\ UNCHANGED <<batch_of_bounding_boxes, raw, ret, img, derror, level,
                   stride, poss, cell, score, loc, priors, pp_retval, calls,
                   first_ret>>
    /\ UNCHANGED <<nmsVars, bgVars, navVars>>

\* lines 239-240: bboxlist = self._nms(bboxlist, 0.3, 'iou') if bboxlist else
\* None; ret.append(bboxlist).  The truth value of an array without elements
\* is False (with a DeprecationWarning in the numpy this code was written
\* for); that of an array of five elements is a ValueError
FpGuard ==
    /\ dpc = "fp_guard"
    /\ IF return_numpy.rows = <<>>
       THEN /\ ret' = Append(ret, "None")
            /\ img' = img + 1
            /\ dpc' = "fp_for"
            /\ UNCHANGED derror
       ELSE /\ dpc' = "fp_error"
            /\ derror' = "ValueError"
            /\ UNCHANGED <<ret, img>>
    /\ UNCHANGED <<batch_of_bounding_boxes, raw, level, stride, poss, cell,
                   score, loc, priors, pp_retval, return_numpy, calls,
                   first_ret>>
    /\ UNCHANGED <<nmsVars, bgVars, navVars>>

\* lines 237, 241: the batch is exhausted; return ret
FpReturn ==
    /\ dpc = "fp_for"
    /\ img > Len(batch_of_bounding_boxes)
    /\ dpc' = "fp_done"
    /\ UNCHANGED <<batch_of_bounding_boxes, raw, ret, img, derror, level,
                   stride, poss, cell, score, loc, priors, pp_retval,
                   return_numpy, calls, first_ret>>
    /\ UNCHANGED <<nmsVars, bgVars, navVars>>

\* finalize_predictions called a second time with the same list object
FpAgain ==
    /\ dpc = "fp_done"
    /\ calls = 1
    /\ calls' = 2
    /\ first_ret' = ret
    /\ dpc' = "fp_call"
    /\ UNCHANGED <<batch_of_bounding_boxes, raw, ret, img, derror, level,
                   stride, poss, cell, score, loc, priors, pp_retval,
                   return_numpy>>
    /\ UNCHANGED <<nmsVars, bgVars, navVars>>

DetectNext ==
    \/ FpEnter
    \/ FpNextImage
    \/ PpSoftmax
    \/ PpLevel
    \/ PpCell
    \/ PpDecodeCall
    \/ PpLevelDone
    \/ PpReturn
    \/ FpGuard
    \/ FpReturn
    \/ FpAgain

DetectSpec == DetectInit /\ [][DetectNext]_vars

DetectFinished == dpc \in {"fp_done", "fp_error"}
DetectReturned == dpc = "fp_done"
DetectRaised == dpc = "fp_error"

(* ------------------------------ claims -------------------------------- *)

\* rows i and j (1-based) of arr overlap by no more than thr under method m
PairBelowThreshold(arr, m, thr, i, j) ==
    OverlapLeq(Overlap(arr, m, i - 1, j - 1), thr)

\* C1: every call of _nms returns a list in which every pair of distinct
\* boxes has overlap (IoU or IoM, per method) no greater than the threshold.
C1_RetainedPairsBelowThreshold ==
    Finished =>
        /\ Returned
        /\ \A i, j \in 1..Len(retval) :
              i # j => PairBelowThreshold(retval, method, threshold, i, j)

\* C2: every call of _nms returns a list in which every box has a score
\* (fifth column) greater than or equal to the configured confidence.
C2_RetainedScoresPassConfidence ==
    Finished =>
        /\ Returned
        /\ \A i \in 1..Len(retval) : retval[i][5] >= confidence

\* C3: _nms only filters: every call returns the rows of its input array
\* (boxes, which no step of the call assigns) selected by pairwise distinct
\* input indices, unchanged, so no more rows than the input has.
C3_OnlyFilters ==
    Finished =>
        /\ Returned
        /\ \A i, j \in 1..Len(retained_box_indices) :
              i # j => retained_box_indices[i] # retained_box_indices[j]
        /\ \A i \in 1..Len(retained_box_indices) :
              retained_box_indices[i] \in 0..(Len(boxes) - 1)
        /\ retval = Take(boxes, retained_box_indices)
        /\ Len(retval) <= Len(boxes)

SetOf(arr) == {arr[i] : i \in 1..Len(arr)}

\* C4: _nms is idempotent: the first call returns a list, and the call on
\* that list with the same threshold, method and confidence returns the same
\* set of boxes.
C4_Idempotent ==
    Finished =>
        /\ Returned
        /\ run = 2 => SetOf(retval) = SetOf(first_retval)

\* C5: the suppression loop runs until no candidate remains: _nms is left
\* only with an empty remaining order.
C5_LoopRunsUntilOrderEmpty ==
    Finished => Len(order) = 0

\* C6: in the first iteration, when every candidate remains, the box selected
\* as best has the highest score of all candidates, and of the candidates
\* with that score it is the first of the input list.
C6_BestIsHighestScoreStable ==
    (pc = "overlap" /\ iterations = 1) =>
        \A i \in 0..(Len(boxes) - 1) :
            i # best =>
                \/ scores(boxes)[best + 1] > scores(boxes)[i + 1]
                \/ /\ scores(boxes)[best + 1] = scores(boxes)[i + 1]
                   /\ best < i

\* C7: with an empty candidate list _nms raises no error, starts no
\* suppression iteration and returns an empty list.
C7_EmptyInputReturnsEmpty ==
    Len(boxes) = 0 =>
        /\ ~Raised
        /\ iterations = 0
        /\ pc \notin {"overlap", "confidence"}
        /\ Returned => retval = <<>>

C7_Witness ==
    /\ run = 1
    /\ Len(boxes) = 0
    /\ Returned
    /\ retval = <<>>
    /\ iterations = 0

\* C8: with exactly one candidate _nms returns that box unchanged when its
\* score is greater than or equal to the confidence, and an empty list
\* otherwise.
C8_SingleBox ==
    (Len(boxes) = 1 /\ Finished) =>
        /\ Returned
        /\ retval = IF boxes[1][5] >= confidence THEN boxes ELSE <<>>

\* C9: for [0,0,10,10,0.9] and [1,1,11,11,0.8] with threshold 0.3, method
\* iou and confidence 0.5 the areas are 121 each, the intersection of best
\* with the other box is 81, and only [0,0,10,10,0.9] is returned.
C9_OverlappingScenario ==
    ( /\ boxes = << <<0, 0, 10, 10, 90>>, <<1, 1, 11, 11, 80>> >>
      /\ threshold = 3 /\ method = "iou" /\ confidence = 50 ) =>
        /\ pc = "confidence" =>
              areas = <<121, 121>> /\ max_area = <<81>>
        /\ Finished =>
              Returned /\ retval = << <<0, 0, 10, 10, 90>> >>

\* C10: for [0,0,5,5,0.9] and [20,20,25,25,0.8] with threshold 0.3, method
\* iou and confidence 0.5 the overlap of best with the other box is 0 and
\* both boxes are returned.
C10_DisjointScenario ==
    ( /\ boxes = << <<0, 0, 5, 5, 90>>, <<20, 20, 25, 25, 80>> >>
      /\ threshold = 3 /\ method = "iou" /\ confidence = 50 ) =>
        /\ pc = "confidence" =>
              \A k \in 1..Len(overlap) : overlap[k].num = 0
        /\ Finished =>
              /\ Returned
              /\ SetOf(retval) = {<<0, 0, 5, 5, 90>>, <<20, 20, 25, 25, 80>>}
              /\ Len(retval) = 2

(* ----------------- claims on the detection path ----------------------- *)

\* the face probability, in thousandths, that softmax gives the logits v
FaceProbability(v) == SigmoidMilli(v[2] - v[1])

\* the cells <<n, row, col>> of a classification tensor whose face
\* probability exceeds 0.05
PassingCells(cls) ==
    { t \in (0..(Len(cls) - 1)) \X (0..(GridSize - 1)) \X (0..(GridSize - 1)) :
        FaceProbability(cls[t[1] + 1][<<t[2], t[3]>>]) > 50 }

\* some cell of some level of the list im passes the prefilter
HasPassingCell(im) ==
    \E l \in 0..(NumPairs(im) - 1) : PassingCells(im[2 * l + 1]) # {}

\* the decode call of the current cell has been made
DecodeCallLeft == loc # NoValue /\ dpc # "pp_decode"

\* the prior box of cell (row, col) at stride s in corner form
PriorCorner(s, row, col) ==
    LET cx == s \div 2 + col * s
        cy == s \div 2 + row * s
    IN  <<cx - 2 * s, cy - 2 * s, cx + 2 * s, cy + 2 * s>>

LastCandidate == pp_retval[Len(pp_retval)]

\* C11: for every stride and every cell, once the decode call of a cell with
\* an all-zero regression offset has been made, no error was raised and the
\* candidate appended for the cell is the prior box in corner form
\* (cx - 2s, cy - 2s, cx + 2s, cy + 2s).
C11_ZeroOffsetDecodesToPrior ==
    (calls = 1 /\ DecodeCallLeft /\ loc = ZeroLoc) =>
        /\ ~DetectRaised
        /\ Len(pp_retval) > 0
        /\ SubSeq(LastCandidate, 1, 4) =
              PriorCorner(stride, poss[cell][2], poss[cell][3])

\* C12: with stride 4, cell (row 0, col 0) and offset (0,0,0,0) the prior is
\* centred at (2, 2) with size 16 and the decoded box is (0, 0, 4, 4).
C12_DecodeScenario ==
    (calls = 1 /\ raw = << <<ClsHot(<<0, 0>>), RegZero>> >>) =>
        /\ dpc = "pp_decode" =>
              stride = 4 /\ loc = ZeroLoc /\ priors = <<2, 2, 16, 16>>
        /\ DecodeCallLeft =>
              /\ ~DetectRaised
              /\ Len(pp_retval) = 1
              /\ SubSeq(pp_retval[1], 1, 4) = <<0, 0, 4, 4>>

\* C13: for a batch of B images finalize_predictions returns B entries, the
\* k-th being the result of the k-th image: the empty marker when no cell of
\* the image passes the prefilter, a box array otherwise.
C13_OneEntryPerImageInOrder ==
    (calls = 1 /\ DetectFinished) =>
        /\ DetectReturned
        /\ Len(ret) = Len(raw)
        /\ \A k \in 1..Len(ret) : (ret[k] = "None") <=> ~HasPassingCell(raw[k])

\* C14: an image without a passing cell gets the empty marker as its entry;
\* an image with a passing cell gets an entry, the result of _nms on its
\* candidates, which is an array and not the marker.
C14_EmptyMarkerOrNms ==
    calls = 1 =>
        /\ \A k \in 1..Len(ret) : ~HasPassingCell(raw[k]) => ret[k] = "None"
        /\ \A k \in 1..Len(raw) :
              (HasPassingCell(raw[k]) /\ (k < img \/ DetectFinished)) =>
                  /\ Len(ret) >= k
                  /\ ret[k] # "None"

\* C15: the entry of image k depends on the tensors of image k alone: an
\* image without a passing cell, whose entry is the empty marker when it is
\* the whole batch, has the empty marker as its entry whatever the other
\* images of the batch hold.
C15_NoCrossImageInteraction ==
    (calls = 1 /\ DetectFinished) =>
        \A k \in 1..Len(raw) :
            ~HasPassingCell(raw[k]) => (Len(ret) >= k /\ ret[k] = "None")

\* a list of odd length, or a pair whose tensors differ in batch size
Malformed(im) ==
    \/ Len(im) % 2 = 1
    \/ \E l \in 0..(NumPairs(im) - 1) : Len(im[2 * l + 1]) # Len(im[2 * l + 2])

\* C16: a malformed list is never processed: no entry is appended for it.
C16_MalformedInputFailsFast ==
    \A k \in 1..Len(ret) : ~Malformed(raw[k])

StrideTable == <<4, 8, 16, 32, 64, 128>>

C18_PureBetweenCalls ==
    /\ batch_of_bounding_boxes = raw
    /\ (calls = 2 /\ DetectFinished) => (DetectReturned /\ ret = first_ret)

\* C19: the cells selected for a level are exactly the cells <<n, row, col>>
\* of its classification tensor whose face probability is above 0.05, and
\* the score read for a selected cell is the face probability of that same
\* cell of the same image n.
C19_ScoreFilterExact ==
    (calls = 1 /\ dpc \in {"pp_cells", "pp_decode"}) =>
        /\ {poss[k] : k \in 1..Len(poss)} = PassingCells(raw[img][2 * level + 1])
        /\ dpc = "pp_decode" =>
              score = FaceProbability(
                         raw[img][2 * level + 1][poss[cell][1] + 1]
                            [<<poss[cell][2], poss[cell][3]>>])

\* C20: every cell that passes the prefilter yields a candidate, and every
\* candidate has x1 <= x2, y1 <= y2 and a score between 0 and 1.
C20_CandidatesWellFormed ==
    /\ DecodeCallLeft => (~DetectRaised /\ Len(pp_retval) > 0)
    /\ \A k \in 1..Len(pp_retval) :
          /\ pp_retval[k][1] <= pp_retval[k][3]
          /\ pp_retval[k][2] <= pp_retval[k][4]
          /\ pp_retval[k][5] \in 0..1000

(* ---------------- claims on the overlap and the loop ------------------ *)

\* area of a box row <<x1, y1, x2, y2, score>>
BoxArea(b) == (b[3] - b[1] + 1) * (b[4] - b[2] + 1)

\* intersection area of two box rows
BoxIntersection(a, b) ==
    Maximum(0, Minimum(a[3], b[3]) - Maximum(a[1], b[1]) + 1)
        * Maximum(0, Minimum(a[4], b[4]) - Maximum(a[2], b[2]) + 1)

\* overlap of two box rows as a fraction, per method
BoxOverlap(m, a, b) ==
    [num |-> BoxIntersection(a, b),
     den |-> IF m = "iom"
             THEN Minimum(BoxArea(a), BoxArea(b))
             ELSE BoxArea(a) + BoxArea(b) - BoxIntersection(a, b)]

\* C21: in the first iteration, when every other candidate remains, the
\* overlap of best against each remaining box is computed, with
\* area = (x2-x1+1)*(y2-y1+1), intersection = max(0, min x2 - max x1 + 1) *
\* max(0, min y2 - max y1 + 1), iou = inter / (area best + area rest - inter)
\* and iom = inter / min(area best, area rest), chosen by the method.
C21_OverlapOfBestAgainstRest ==
    (pc = "confidence" /\ iterations = 1) =>
        /\ Len(overlap) = Len(boxes) - 1
        /\ \A i \in 0..(Len(boxes) - 1) :
              i # best =>
                  \E k \in 1..Len(rest) :
                      /\ rest[k] = i
                      /\ overlap[k] = BoxOverlap(method, boxes[best + 1],
                                                 boxes[i + 1])

\* the entries of rest whose overlap with best is within the threshold, in
\* the order of rest
KeptOfRest ==
    LET idx == SelectSeq([k \in 1..Len(rest) |-> k],
                         LAMBDA k : OverlapLeq(overlap[k], threshold))
    IN  [j \in 1..Len(idx) |-> rest[idx[j]]]

\* C22: the step that ends an iteration goes back to the loop test with the
\* remaining order being exactly the boxes of rest whose overlap with best
\* is within the threshold, in their previous relative order; best and the
\* boxes above the threshold are gone.
C22_RemainingOrderIsKeptRest ==
    [][pc = "confidence" => (pc' = "while" /\ order' = KeptOfRest)]_vars

RECURSIVE CandidateCount(_, _)
\* the number of passing cells of the levels 0..j-1 of an image
CandidateCount(im, j) ==
    IF j = 0 THEN 0
    ELSE CandidateCount(im, j - 1) + Cardinality(PassingCells(im[2 * j - 1]))

\* C23: for each image the array handed from _post_process to the guard of
\* _nms holds one candidate for every passing cell of every level, and
\* finalize_predictions, which runs _nms at most once per image on that
\* single array, returns.
C23_OneNmsRunOverAllLevels ==
    /\ (calls = 1 /\ dpc = "fp_guard") =>
          Len(return_numpy.rows) = CandidateCount(raw[img], NumPairs(raw[img]))
    /\ (calls = 1 /\ DetectFinished) => DetectReturned

\* C24: an iteration whose best has a score below the confidence does not
\* retain best, and goes on to the loop test with every box of rest that
\* overlaps best above the threshold removed from the order.
C24_LowBestSuppressesUnretained ==
    [][(pc = "confidence" /\ boxes[best + 1][5] < confidence) =>
          /\ retained_box_indices' = retained_box_indices
          /\ pc' = "while"
          /\ \A k \in 1..Len(rest) :
                ~OverlapLeq(overlap[k], threshold) =>
                    rest[k] \notin SetOf(order')]_vars

\* position of the first row of highest score
FirstMax(arr) ==
    CHOOSE i \in 1..Len(arr) :
        /\ \A j \in 1..Len(arr) : arr[j][5] <= arr[i][5]
        /\ \A j \in 1..(i - 1) : arr[j][5] < arr[i][5]

\* arr without the row at position i
Without(arr, i) == SubSeq(arr, 1, i - 1) \o SubSeq(arr, i + 1, Len(arr))

RECURSIVE GreedySuppression(_, _, _)
\* greedy suppression without a confidence: keep the highest scoring row,
\* drop the rows that overlap it above the threshold, repeat on what is left
GreedySuppression(arr, m, thr) ==
    IF arr = <<>> THEN <<>>
    ELSE LET b == arr[FirstMax(arr)]
             others == Without(arr, FirstMax(arr))
             kept == SelectSeq(others,
                               LAMBDA r : OverlapLeq(BoxOverlap(m, b, r), thr))
         IN  <<b>> \o GreedySuppression(kept, m, thr)

\* the rows whose score reaches the confidence
ConfidenceFilter(arr, c) == SelectSeq(arr, LAMBDA r : r[5] >= c)

\* C25: _nms returns what greedy suppression returns on the candidates
\* filtered by confidence beforehand.
C25_EquivalentToPrefiltering ==
    Finished =>
        /\ Returned
        /\ retval = GreedySuppression(ConfidenceFilter(boxes, confidence),
                                      method, threshold)

\* C26: _nms returns, and every candidate whose score reaches the confidence
\* and which is not returned overlaps, above the threshold, a returned box
\* whose score is at least as high.
C26_Maximality ==
    Finished =>
        /\ Returned
        /\ \A i \in 1..Len(boxes) :
              (boxes[i][5] >= confidence /\ boxes[i] \notin SetOf(retval)) =>
                  \E j \in 1..Len(retval) :
                      /\ retval[j][5] >= boxes[i][5]
                      /\ ~OverlapLeq(BoxOverlap(method, retval[j], boxes[i]),
                                     threshold)

\* C27: for a non-empty list whose highest score reaches the confidence,
\* _nms returns a list that holds a box of that highest score.
C27_TopBoxReturned ==
    (Finished /\ Len(boxes) > 0
       /\ boxes[FirstMax(boxes)][5] >= confidence) =>
        /\ Returned
        /\ \E j \in 1..Len(retval) :
              retval[j][5] = boxes[FirstMax(boxes)][5]

(* ---------------- BackgroundGenerator (lib/utils.py) ------------------ *)

\* longest item sequence of a wrapped generator
MaxItems == 4

\* largest prefetch given to the constructor
MaxPrefetch == 2

\* the value None, as an item and as the end sentinel
None == "None"

Items == {"a", "b", None}

Generators == UNION { [1..n -> Items] : n \in 0..MaxItems }

Prefetches == 1..MaxPrefetch

\* Queue.Queue(prefetch): put blocks while the queue holds maxsize items
FullLate(q) == prefetch > 0 /\ Len(q) > prefetch
Full(q) == prefetch > 0 /\ Len(q) >= prefetch

\* the test `next_item is None` of iterator
IsNoneNever(x) == FALSE
IsNone(x) == x = None

\* __init__: the queue is created empty and the thread is started; the
\* caller iterates over iterator()
BgInit ==
    /\ NmsIdle
    /\ DetectIdle
    /\ NavIdle
    /\ generator \in Generators
    /\ prefetch \in Prefetches
    /\ queue = <<>>
    /\ taken = 0
    /\ item = "unset"
    /\ ppc = "for"
    /\ next_item = "unset"
    /\ cpc = "get"
    /\ yielded = <<>>

\* run, `for item in self.generator`: the next item is taken
RunNext ==
    /\ ppc = "for"
    /\ taken < Len(generator)
    /\ item' = generator[taken + 1]
    /\ taken' = taken + 1
    /\ ppc' = "put"
    /\ UNCHANGED <<generator, prefetch, queue, next_item, cpc, yielded>>
    /\ UNCHANGED <<nmsVars, detVars, navVars>>

\* run, self.queue.put(item): blocks while the queue is full
RunPut ==
    /\ ppc = "put"
    /\ ~Full(queue)
    /\ queue' = Append(queue, item)
    /\ ppc' = "for"
    /\ UNCHANGED <<generator, prefetch, taken, item, next_item, cpc, yielded>>
    /\ UNCHANGED <<nmsVars, detVars, navVars>>

\* run, the generator is exhausted: the for loop is left
RunExhausted ==
    /\ ppc = "for"
    /\ taken = Len(generator)
    /\ ppc' = "put_none"
    /\ UNCHANGED <<generator, prefetch, queue, taken, item, next_item, cpc,
                   yielded>>
    /\ UNCHANGED <<nmsVars, detVars, navVars>>

\* run, self.queue.put(None): the end sentinel, then the thread ends
RunPutNone ==
    /\ ppc = "put_none"
    /\ ~Full(queue)
    /\ queue' = Append(queue, None)
    /\ ppc' = "done"
    /\ UNCHANGED <<generator, prefetch, taken, item, next_item, cpc, yielded>>
    /\ UNCHANGED <<nmsVars, detVars, navVars>>

\* iterator, next_item = self.queue.get(): blocks while the queue is empty
IteratorGet ==
    /\ cpc = "get"
    /\ queue # <<>>
    /\ next_item' = Head(queue)
    /\ queue' = Tail(queue)
    /\ cpc' = "got"
    /\ UNCHANGED <<generator, prefetch, taken, item, ppc, yielded>>
    /\ UNCHANGED <<nmsVars, detVars, navVars>>

\* iterator, `if next_item is None: break`
IteratorBreak ==
    /\ cpc = "got"
    /\ IsNone(next_item)
    /\ cpc' = "done"
    /\ UNCHANGED <<generator, prefetch, queue, taken, item, ppc, next_item,
                   yielded>>
    /\ UNCHANGED <<nmsVars, detVars, navVars>>

\* iterator, `yield next_item`, the caller asks for the next one
IteratorYield ==
    /\ cpc = "got"
    /\ ~IsNone(next_item)
    /\ yielded' = Append(yielded, next_item)
    /\ cpc' = "get"
    /\ UNCHANGED <<generator, prefetch, queue, taken, item, ppc, next_item>>
    /\ UNCHANGED <<nmsVars, detVars, navVars>>

\* the thread started by __init__
Run == RunNext \/ RunPut \/ RunExhausted \/ RunPutNone

\* the generator function iterator, driven by its caller
Iterator == IteratorGet \/ IteratorBreak \/ IteratorYield

BgNext ==
    \/ RunNext
    \/ RunPut
    \/ RunExhausted
    \/ RunPutNone
    \/ IteratorGet
    \/ IteratorBreak
    \/ IteratorYield

BgSpec == BgInit /\ [][BgNext]_vars

\* a started thread that can run is run, and the caller keeps iterating
BgFairSpec == BgSpec /\ WF_vars(Run) /\ WF_vars(Iterator)

(* ----------------- claims on BackgroundGenerator ---------------------- *)

\* the items of a sequence before its first None, all of them without one
BeforeFirstNone(gen) ==
    IF \E i \in 1..Len(gen) : gen[i] = None
    THEN SubSeq(gen, 1,
                (CHOOSE i \in 1..Len(gen) :
                    /\ gen[i] = None
                    /\ \A j \in 1..(i - 1) : gen[j] # None) - 1)
    ELSE gen

IsPrefix(s, t) == Len(s) <= Len(t) /\ s = SubSeq(t, 1, Len(s))

\* C28: under every interleaving of the thread and the caller, what
\* iterator() has yielded is always a prefix of the generator's items before
\* its first None, it is all of them when iterator() has ended, without a
\* None item iterator() ends only after the thread has put the end sentinel,
\* and iterator() does end.
C28_YieldsItemsInOrderThenEnds ==
    /\ [](/\ IsPrefix(yielded, BeforeFirstNone(generator))
          /\ cpc = "done" => yielded = BeforeFirstNone(generator)
          /\ (cpc = "done" /\ BeforeFirstNone(generator) = generator) =>
                ppc = "done")
    /\ <>(cpc = "done")

C28_Witness ==
    /\ cpc = "done"
    /\ ppc = "done"
    /\ prefetch = 1
    /\ generator = <<"a", "b", "a", "b">>
    /\ yielded = generator

\* C29 as stated: with prefetch = 1 the items taken from the generator and
\* not yet yielded number at most 2.
C29_AtMostTwoNotYetYielded ==
    prefetch = 1 => taken - Len(yielded) <= 2

\* the item run holds while it waits in put
Held == IF ppc = "put" THEN 1 ELSE 0

\* C29, amended: with prefetch = 1 at most one item is in the queue and at
\* most one is held by the thread waiting in put, 2 prefetched items at most;
\* with the item iterator() has taken from the queue and not yet yielded, at
\* most 3 items are taken from the generator and not yet yielded.
C29_AtMostTwoPrefetched ==
    prefetch = 1 =>
        /\ Len(queue) <= 1
        /\ Len(queue) + Held <= 2
        /\ taken - Len(yielded) <= 3

C29_Witness ==
    /\ prefetch = 1
    /\ Len(queue) = 1
    /\ ppc = "put"
    /\ cpc = "got"
    /\ ~IsNone(next_item)
    /\ None \notin SetOf(queue)
    /\ taken - Len(yielded) = 3

(* ------------- FrameNavigation (tools/lib_manual/media.py) ------------ *)

\* largest number of frames the loader counts
MaxFrames == 4

FrameCounts == 1..MaxFrames

\* the navigation state a handler starts from
NavState ==
    [position |-> position, is_playing |-> is_playing,
     current_idx |-> current_idx, needs_update |-> needs_update,
     updated |-> updated]

\* the test `position == self.frame_count - 1` of increment_frame
AtLastFrameLate(pos) == pos = frame_count
AtLastFrame(pos) == pos = frame_count - 1

\* goto_frame(index, stop_playback) from the state st: playback is stopped
\* if asked for and playing, the position is set, and the write trace
\* _set_current_frame loads the frame when the position differs from the
\* loaded index
GotoFrame(index, stop_playback, st) ==
    [position |-> index,
     is_playing |-> IF stop_playback /\ st.is_playing THEN FALSE
                    ELSE st.is_playing,
     current_idx |-> index,
     needs_update |-> IF index = st.current_idx THEN st.needs_update ELSE TRUE,
     updated |-> IF index = st.current_idx THEN st.updated ELSE TRUE]

\* increment_frame(is_playing=arg) from the state st
IncrementFrameFrom(arg, st) ==
    IF AtLastFrame(st.position)
    THEN [st EXCEPT !.is_playing = FALSE]
    ELSE GotoFrame(st.position + 1, ~arg /\ st.is_playing, st)

\* the state st becomes the navigation state
Becomes(st) ==
    /\ position' = st.position
    /\ is_playing' = st.is_playing
    /\ current_idx' = st.current_idx
    /\ needs_update' = st.needs_update
    /\ updated' = st.updated

\* __init__: index 0, position 0, not playing, then
\* _set_current_frame(initialize=True) loads frame 0 and flags the update
NavInit ==
    /\ NmsIdle
    /\ DetectIdle
    /\ BgIdle
    /\ frame_count \in FrameCounts
    /\ position = 0
    /\ is_playing = FALSE
    /\ current_idx = 0
    /\ needs_update = TRUE
    /\ updated = TRUE
    /\ last_op = "init"
    /\ before = NavState

\* increment_frame() from the next button or key, and
\* increment_frame(is_playing=True) from the playback timer
IncrementFrame ==
    /\ \E arg \in BOOLEAN :
          /\ arg => is_playing
          /\ Becomes(IncrementFrameFrom(arg, NavState))
    /\ last_op' = "increment_frame"
    /\ before' = NavState
    /\ UNCHANGED frame_count
    /\ UNCHANGED <<nmsVars, detVars, bgVars>>

\* decrement_frame
DecrementFrame ==
    /\ IF position = 0
       THEN Becomes(NavState)
       ELSE Becomes(GotoFrame(position - 1, TRUE, NavState))
    /\ last_op' = "decrement_frame"
    /\ before' = NavState
    /\ UNCHANGED frame_count
    /\ UNCHANGED <<nmsVars, detVars, bgVars>>

\* set_first_frame
SetFirstFrame ==
    /\ Becomes(GotoFrame(0, TRUE, NavState))
    /\ last_op' = "set_first_frame"
    /\ before' = NavState
    /\ UNCHANGED frame_count
    /\ UNCHANGED <<nmsVars, detVars, bgVars>>

\* set_last_frame
SetLastFrame ==
    /\ Becomes(GotoFrame(frame_count - 1, TRUE, NavState))
    /\ last_op' = "set_last_frame"
    /\ before' = NavState
    /\ UNCHANGED frame_count
    /\ UNCHANGED <<nmsVars, detVars, bgVars>>

\* the play button of the manual tool switches is_playing; the write trace
\* _play then calls increment_frame(is_playing=True) when playing
HandlePlayButton ==
    /\ IF is_playing
       THEN /\ Becomes([NavState EXCEPT !.is_playing = FALSE])
            /\ last_op' = "handle_play_button"
            /\ before' = NavState
       ELSE /\ Becomes(IncrementFrameFrom(TRUE,
                           [NavState EXCEPT !.is_playing = TRUE]))
            /\ last_op' = "increment_frame"
            /\ before' = [NavState EXCEPT !.is_playing = TRUE]
    /\ UNCHANGED frame_count
    /\ UNCHANGED <<nmsVars, detVars, bgVars>>

\* clear_update_flag, once the canvas shows the frame
ClearUpdateFlag ==
    /\ needs_update
    /\ needs_update' = FALSE
    /\ last_op' = "clear_update_flag"
    /\ before' = NavState
    /\ UNCHANGED <<frame_count, position, is_playing, current_idx, updated>>
    /\ UNCHANGED <<nmsVars, detVars, bgVars>>

NavNext ==
    \/ IncrementFrame
    \/ DecrementFrame
    \/ SetFirstFrame
    \/ SetLastFrame
    \/ HandlePlayButton
    \/ ClearUpdateFlag

NavSpec == NavInit /\ [][NavNext]_vars

(* ------------------- claims on FrameNavigation ------------------------ *)

\* C30: the position always is one of 0..frame_count-1; after
\* increment_frame at the last frame the position is what it was and
\* is_playing is False; after decrement_frame at frame 0 the state is what
\* it was.
C30_PositionStaysInRange ==
    /\ position \in 0..(frame_count - 1)
    /\ (last_op = "increment_frame"
           /\ before.position = frame_count - 1) =>
          (position = before.position /\ ~is_playing)
    /\ (last_op = "decrement_frame" /\ before.position = 0) =>
          NavState = before

C30_Witness ==
    /\ frame_count = 3
    /\ last_op = "increment_frame"
    /\ before.position = 2
    /\ before.is_playing
    /\ position = 2
    /\ ~is_playing

====
